---- MODULE Spec2Model ----
(***************************************************************************)
(* Laundry order pricing and lifecycle of communityexpress-api             *)
(* (app/routers/laundry.py), modelled handler by handler over the tables   *)
(* laundry_items, laundry_vendors, laundry_orders and laundry_order_items, *)
(* and the orders and payments of app/routers/orders.py and payments.py    *)
(* over the tables orders, order_items, payments and order_status_history. *)
(*                                                                         *)
(* A handler is modelled on its parameters: current_user is the identity   *)
(* the handler receives, whatever dependency resolved it.                  *)
(***************************************************************************)
EXTENDS Integers, Sequences, FiniteSets, TLC

\* ------------------------------------------------------------------ bounds
MaxOrders == 1      \* rows of laundry_orders
MaxTime == 2        \* readings of datetime.now()
MaxLines == 2       \* lines of one order request
MaxQty == 2         \* quantity of one line
MaxProcs == 2       \* update requests in flight at once
MaxPayments == 2    \* rows of payments
MaxHistory == 2     \* rows of order_status_history
MaxRows == 2        \* rows of laundry_orders a dashboard is computed from
MaxDay == 3         \* days of the calendar a dashboard is computed in
MaxUsers == 4       \* rows of users

\* Optional[datetime] = None: a column that holds no timestamp
NULL == 0

\* Optional[str] = None: a column that holds no text
NoText == "none"

\* payment_reference: Optional[str] of a row no payment was processed for
NoReference == <<>>

\* ------------------------------------------------------------------ users
\* the accounts that send requests: id |-> role
Users ==
  [alice |-> "user", bob |-> "user", vera |-> "vendor",
   adam |-> "admin", pat |-> "partner", root |-> "master"]
  @@ ("test-user-id" :> "master")

UserIds == DOMAIN Users

\* vendors.user_id: the account that owns the vendor behind a laundry vendor
VendorOwner == [lv1 |-> "vera"]

LaundryVendorIds == DOMAIN VendorOwner

LaundryItemIds == {"i1", "i2"}

\* ---------------------------------------------------------------- decimals
\* A decimal.Decimal is coefficient c and exponent e: value c * 10^e.
Dec(c, e) == [c |-> c, e |-> e]

MinInt(a, b) == IF a < b THEN a ELSE b

\* Decimal + Decimal: exact, the exponent is the smaller one
DecAdd(a, b) ==
  LET e == MinInt(a.e, b.e)
  IN  Dec(a.c * 10^(a.e - e) + b.c * 10^(b.e - e), e)

\* Decimal * Decimal: exact, the exponents add
DecMul(a, b) == Dec(a.c * b.c, a.e + b.e)

\* Decimal * int: the int converts to a Decimal of exponent 0
DecMulInt(a, n) == DecMul(a, Dec(n, 0))

RECURSIVE StripZeros(_)
StripZeros(d) ==
  IF d.c = 0 THEN Dec(0, 0)
  ELSE IF d.e < 0 /\ d.c % 10 = 0 THEN StripZeros(Dec(d.c \div 10, d.e + 1))
  ELSE IF d.e > 0 THEN Dec(d.c * 10^d.e, 0)
  ELSE d

\* float(Decimal) as the store receives it: the JSON number, which is the
\* shortest decimal that reads back as the same double. For the amounts of
\* this model (below 15 significant digits) that is the value of d without
\* its trailing zeros: Decimal('32.4000') is sent as 32.4.
Float(d) == StripZeros(d)

\* Decimal(str(x)) of a JSON number x: str of a float always has a fraction
\* digit, so 50 reads as Decimal('50.0')
DecimalOfStr(x) == IF x.e >= 0 THEN Dec(x.c * 10^(x.e + 1), -1) ELSE x

\* Decimal('0.00'), the start of the subtotal
ZERO == Dec(0, -2)

\* Decimal('0.18'), the GST rate
GST == Dec(18, -2)

\* ------------------------------------------------------------- input sets
\* catalog prices and vendor charges, as JSON numbers: 50.0, 30.0, 10.01
Prices == {Dec(50, 0), Dec(30, 0), Dec(1001, -2)}

Charges == {Dec(20, 0), Dec(30, 0)}

\* a line of LaundryOrderCreate.items; i9 is an id no catalog row has
Lines ==
  [laundry_item_id : LaundryItemIds \cup {"i9"}, quantity : 0..MaxQty]

Carts == UNION {[1..n -> Lines] : n \in 0..MaxLines}

\* ------------------------------------------------------------------ state
VARIABLES
  laundry_items,        \* item id |-> price_per_piece
  laundry_vendors,      \* laundry vendor id |-> [pickup_charge, delivery_charge]
  laundry_orders,       \* sequence of order rows; the id is the position
  laundry_order_items,  \* order id |-> sequence of item rows
  now,                  \* the reading of datetime.now()
  procs,                \* update_laundry_order requests, store call by store call
  last                  \* the last answer: the handler and its HTTP status

VARIABLES
  creating,             \* a create_laundry_order request, store call by store call
  orders,               \* sequence of rows of orders; the id is the position
  order_items,          \* sequence of rows of order_items
  payments,             \* sequence of rows of payments; the id is the position
  order_status_history, \* sequence of rows of order_status_history
  refunds,              \* refund_payment requests, store call by store call
  changing              \* an update_order_status request, store call by store call

VARIABLES
  users,                \* sequence of rows of users
  vendors,              \* sequence of rows of vendors
  signups               \* register and create_vendor requests, store call by store call

\* the tables of laundry.py
laundry_tables ==
  <<laundry_items, laundry_vendors, laundry_orders, laundry_order_items>>

\* the tables of orders.py and payments.py
shop_tables == <<orders, order_items, payments, order_status_history>>

\* the requests in flight that this model follows store call by store call
in_flight == <<procs, creating, refunds, changing>>

\* the accounts, the vendors and the requests that create them
accounts == <<users, vendors, signups>>

vars == <<laundry_tables, shop_tables, in_flight, accounts, now, last>>

Statuses ==
  {"pending", "confirmed", "picked_up", "ready", "delivered", "cancelled"}

\* the status a new row gets: the insert sends none, the column default applies
DefaultStatus == "pending"

\* the payment_status a new row gets: the insert sends none either
DefaultPaymentStatus == "pending"

Answer(op, code) == [op |-> op, code |-> code]

NoBody == [pickup_instructions |-> "none"]

Idle ==
  [pc |-> "idle", user |-> "none", order_id |-> 0, order_data |-> NoBody,
   seen |-> "none", code |-> 0]

\* no create_laundry_order request is in flight
IdleCreate ==
  [pc |-> "idle", user |-> "none", vendor_id |-> "none", items |-> <<>>,
   order_insert_data |-> <<>>, items_data |-> <<>>, order_id |-> 0,
   code |-> 0, detail |-> "none"]

\* no refund_payment request is in flight
IdleRefund ==
  [pc |-> "idle", user |-> "none", payment_id |-> 0, seen |-> "none",
   order_id |-> 0, code |-> 0]

\* no update_order_status request is in flight
IdleChange ==
  [pc |-> "idle", user |-> "none", order_id |-> 0, new_status |-> "none",
   code |-> 0]

\* no register or create_vendor request is in flight
IdleSignup ==
  [pc |-> "idle", op |-> "none", name |-> "none", type |-> "none",
   email |-> "none", user_id |-> 0, vendor_id |-> 0, code |-> 0,
   detail |-> "none"]

\* the account create_master_user.py creates
MasterRow == [id |-> 1, email |-> "master@communityexpress.com", role |-> "master"]

\* the accounts before the first registration
InitAccounts ==
  /\ users = <<MasterRow>>
  /\ vendors = <<>>
  /\ signups = [p \in 1..MaxProcs |-> IdleSignup]

\* orders, payments and their requests before the first request
InitShop ==
  /\ InitAccounts
  /\ orders = <<>>
  /\ order_items = <<>>
  /\ payments = <<>>
  /\ order_status_history = <<>>
  /\ creating = IdleCreate
  /\ refunds = [p \in 1..MaxProcs |-> IdleRefund]
  /\ changing = IdleChange

\* the store of the reference scenario: prices 50.00 and 30.00, charges 20.00
\* and 30.00
Init ==
  /\ laundry_items =
       [i \in LaundryItemIds |-> IF i = "i1" THEN Dec(50, 0) ELSE Dec(30, 0)]
  /\ laundry_vendors =
       [v \in LaundryVendorIds |->
          [pickup_charge |-> Dec(20, 0), delivery_charge |-> Dec(30, 0)]]
  /\ laundry_orders = <<>>
  /\ laundry_order_items = <<>>
  /\ now = 1
  /\ procs = [p \in 1..MaxProcs |-> Idle]
  /\ last = Answer("none", 0)
  /\ InitShop

\* a store with any catalog prices and any vendor charges
InitPricing ==
  /\ laundry_items \in [LaundryItemIds -> Prices]
  /\ laundry_vendors \in
       [LaundryVendorIds -> [pickup_charge : Charges, delivery_charge : Charges]]
  /\ laundry_orders = <<>>
  /\ laundry_order_items = <<>>
  /\ now = 1
  /\ procs = [p \in 1..MaxProcs |-> Idle]
  /\ last = Answer("none", 0)
  /\ InitShop

\* ---------------------------------------------------------------- pricing
\* the row of items_data built for one request line
ItemData(line, catalog) ==
  LET unit_price == DecimalOfStr(catalog[line.laundry_item_id])
      total_price == DecMulInt(unit_price, line.quantity)
  IN  [laundry_item_id |-> line.laundry_item_id,
       quantity |-> line.quantity,
       unit_price |-> Float(unit_price),
       total_price |-> Float(total_price)]

RECURSIVE SubtotalOf(_, _, _)
\* subtotal after the first k lines of the loop
SubtotalOf(items, catalog, k) ==
  IF k = 0 THEN ZERO
  ELSE DecAdd(SubtotalOf(items, catalog, k - 1),
              DecMulInt(DecimalOfStr(catalog[items[k].laundry_item_id]),
                        items[k].quantity))

TaxAmount(subtotal, pickup_charge, delivery_charge) ==
  DecMul(DecAdd(DecAdd(subtotal, pickup_charge), delivery_charge), GST)

\* the total with the delivery charge left out
TotalAmount_NoDelivery(subtotal, pickup_charge, delivery_charge, tax_amount) ==
  DecAdd(DecAdd(subtotal, pickup_charge), tax_amount)

TotalAmount(subtotal, pickup_charge, delivery_charge, tax_amount) ==
  DecAdd(DecAdd(DecAdd(subtotal, pickup_charge), delivery_charge), tax_amount)

\* order_insert_data, completed by the column defaults of laundry_orders
OrderInsertData(user, vendor_id, items, catalog, vendor) ==
  LET subtotal == SubtotalOf(items, catalog, Len(items))
      pickup_charge == DecimalOfStr(vendor.pickup_charge)
      delivery_charge == DecimalOfStr(vendor.delivery_charge)
      tax_amount == TaxAmount(subtotal, pickup_charge, delivery_charge)
      total_amount ==
        TotalAmount(subtotal, pickup_charge, delivery_charge, tax_amount)
  IN  [user_id |-> user,
       laundry_vendor_id |-> vendor_id,
       status |-> DefaultStatus,
       payment_status |-> DefaultPaymentStatus,
       payment_method |-> NoText,
       payment_reference |-> NoReference,
       created_at |-> now,
       subtotal |-> Float(subtotal),
       pickup_charge |-> Float(pickup_charge),
       delivery_charge |-> Float(delivery_charge),
       tax_amount |-> Float(tax_amount),
       total_amount |-> Float(total_amount),
       confirmed_at |-> NULL,
       picked_up_at |-> NULL,
       ready_at |-> NULL,
       delivered_at |-> NULL,
       cancelled_at |-> NULL]

\* POST /laundry/orders
CreateLaundryOrder(user, vendor_id, items) ==
  /\ UNCHANGED <<laundry_items, laundry_vendors, now, in_flight, shop_tables, accounts>>
  /\ IF \E k \in 1..Len(items) : items[k].quantity <= 0
     THEN \* LaundryOrderItemCreate.quantity: Field(gt=0)
          /\ last' = Answer("create", 422)
          /\ UNCHANGED <<laundry_orders, laundry_order_items>>
     ELSE IF Users[user] # "user"
     THEN /\ last' = Answer("create", 403)
          /\ UNCHANGED <<laundry_orders, laundry_order_items>>
     ELSE IF \E k \in 1..Len(items) :
               items[k].laundry_item_id \notin DOMAIN laundry_items
     THEN /\ last' = Answer("create", 400)
          /\ UNCHANGED <<laundry_orders, laundry_order_items>>
     ELSE IF vendor_id \notin DOMAIN laundry_vendors
     THEN /\ last' = Answer("create", 400)
          /\ UNCHANGED <<laundry_orders, laundry_order_items>>
     ELSE /\ Len(laundry_orders) < MaxOrders
          /\ laundry_orders' =
               Append(laundry_orders,
                      OrderInsertData(user, vendor_id, items, laundry_items,
                                      laundry_vendors[vendor_id]))
          /\ laundry_order_items' =
               Append(laundry_order_items,
                      [k \in 1..Len(items) |-> ItemData(items[k], laundry_items)])
          /\ last' = Answer("create", 200)

\* -------------------------------------------------------------- lifecycle
\* a LaundryOrderUpdate body: one that sets status, or one that sets only
\* another field (pickup_instructions, no column of this model)
OrderUpdates == {[status |-> s] : s \in Statuses} \cup {NoBody}

\* "Permission check" of update_laundry_order
AccessDenied(user, order) ==
  Users[user] = "user" /\ order.user_id # user

\* update_data with the branch of "ready" missing
UpdateData_NoReadyStamp(order_data, t) ==
  IF "status" \in DOMAIN order_data
  THEN IF order_data.status = "confirmed" THEN order_data @@ [confirmed_at |-> t]
       ELSE IF order_data.status = "picked_up" THEN order_data @@ [picked_up_at |-> t]
       ELSE IF order_data.status = "delivered" THEN order_data @@ [delivered_at |-> t]
       ELSE IF order_data.status = "cancelled" THEN order_data @@ [cancelled_at |-> t]
       ELSE order_data
  ELSE order_data

\* update_data that also marks the payment of a cancelled order refunded
UpdateData_CancelRefunds(order_data, t) ==
  IF "status" \in DOMAIN order_data
  THEN IF order_data.status = "confirmed" THEN order_data @@ [confirmed_at |-> t]
       ELSE IF order_data.status = "picked_up" THEN order_data @@ [picked_up_at |-> t]
       ELSE IF order_data.status = "ready" THEN order_data @@ [ready_at |-> t]
       ELSE IF order_data.status = "delivered" THEN order_data @@ [delivered_at |-> t]
       ELSE IF order_data.status = "cancelled"
       THEN order_data @@ [cancelled_at |-> t, payment_status |-> "refunded"]
       ELSE order_data
  ELSE order_data

\* update_data: the fields of the body, plus the timestamp of the new status
UpdateData(order_data, t) ==
  IF "status" \in DOMAIN order_data
  THEN IF order_data.status = "confirmed" THEN order_data @@ [confirmed_at |-> t]
       ELSE IF order_data.status = "picked_up" THEN order_data @@ [picked_up_at |-> t]
       ELSE IF order_data.status = "ready" THEN order_data @@ [ready_at |-> t]
       ELSE IF order_data.status = "delivered" THEN order_data @@ [delivered_at |-> t]
       ELSE IF order_data.status = "cancelled" THEN order_data @@ [cancelled_at |-> t]
       ELSE order_data
  ELSE order_data

\* table("laundry_orders").update(update_data) on one row
ApplyUpdate(order, update_data) ==
  [f \in DOMAIN order |->
     IF f \in DOMAIN update_data THEN update_data[f] ELSE order[f]]

\* PUT /laundry/orders/{order_id}, the handler run without interruption
UpdateLaundryOrder(user, order_id, order_data) ==
  /\ UNCHANGED <<laundry_items, laundry_vendors, laundry_order_items, now,
                 in_flight, shop_tables, accounts>>
  /\ IF order_id \notin 1..Len(laundry_orders)
     THEN /\ last' = Answer("update", 404)
          /\ UNCHANGED laundry_orders
     ELSE IF AccessDenied(user, laundry_orders[order_id])
     THEN /\ last' = Answer("update", 403)
          /\ UNCHANGED laundry_orders
     ELSE /\ laundry_orders' =
               [laundry_orders EXCEPT
                  ![order_id] = ApplyUpdate(@, UpdateData(order_data, now))]
          /\ last' = Answer("update", 200)

\* update_laundry_order up to its write: the select and the permission check
UpdateRead(p, user, order_id, order_data) ==
  /\ procs[p].pc = "idle"
  /\ UNCHANGED <<laundry_tables, now, creating, refunds, changing, shop_tables, accounts>>
  /\ IF order_id \notin 1..Len(laundry_orders)
     THEN /\ last' = Answer("update", 404)
          /\ procs' = [procs EXCEPT ![p] =
               [pc |-> "done", user |-> user, order_id |-> order_id,
                order_data |-> order_data, seen |-> "none", code |-> 404]]
     ELSE IF AccessDenied(user, laundry_orders[order_id])
     THEN /\ last' = Answer("update", 403)
          /\ procs' = [procs EXCEPT ![p] =
               [pc |-> "done", user |-> user, order_id |-> order_id,
                order_data |-> order_data,
                seen |-> laundry_orders[order_id].status, code |-> 403]]
     ELSE /\ procs' = [procs EXCEPT ![p] =
               [pc |-> "write", user |-> user, order_id |-> order_id,
                order_data |-> order_data,
                seen |-> laundry_orders[order_id].status, code |-> 0]]
          /\ UNCHANGED last

\* update_laundry_order from its write on: the update of the row, the answer
UpdateWrite(p) ==
  /\ procs[p].pc = "write"
  /\ UNCHANGED <<laundry_items, laundry_vendors, laundry_order_items, now,
                 creating, refunds, changing, shop_tables, accounts>>
  /\ laundry_orders' =
       [laundry_orders EXCEPT
          ![procs[p].order_id] =
             ApplyUpdate(@, UpdateData(procs[p].order_data, now))]
  /\ procs' = [procs EXCEPT ![p].pc = "done", ![p].code = 200]
  /\ last' = Answer("update", 200)

\* time passes between two readings of datetime.now()
Tick ==
  /\ now < MaxTime
  /\ now' = now + 1
  /\ UNCHANGED <<laundry_tables, shop_tables, in_flight, accounts, last>>

\* ---------------------------------------- create_laundry_order, call by call
\* the request answered with an error before any insert
CreateRefused(user, vendor_id, items, code, detail) ==
  [IdleCreate EXCEPT !.pc = "done", !.user = user, !.vendor_id = vendor_id,
                     !.items = items, !.code = code, !.detail = detail]

\* the lines of a request whose item the catalog holds
FoundLines(items) ==
  SelectSeq(items, LAMBDA line : line.laundry_item_id \in DOMAIN laundry_items)

\* the pricing loop that skips a line whose item is not found
CreateLookup_SkipsUnknown(user, vendor_id, items) ==
  /\ creating.pc = "idle"
  /\ Len(laundry_orders) < MaxOrders
  /\ UNCHANGED <<laundry_tables, shop_tables, now, procs, refunds, changing, accounts>>
  /\ IF \E k \in 1..Len(items) : items[k].quantity <= 0
     THEN /\ creating' = CreateRefused(user, vendor_id, items, 422, "validation")
          /\ last' = Answer("create", 422)
     ELSE IF Users[user] # "user"
     THEN /\ creating' = CreateRefused(user, vendor_id, items, 403, "only_users")
          /\ last' = Answer("create", 403)
     ELSE IF vendor_id \notin DOMAIN laundry_vendors
     THEN /\ creating' =
               CreateRefused(user, vendor_id, items, 400, "vendor_not_found")
          /\ last' = Answer("create", 400)
     ELSE /\ creating' =
               [IdleCreate EXCEPT
                  !.pc = "insert_order", !.user = user,
                  !.vendor_id = vendor_id, !.items = items,
                  !.order_insert_data =
                     <<OrderInsertData(user, vendor_id, FoundLines(items),
                                       laundry_items, laundry_vendors[vendor_id])>>,
                  !.items_data =
                     [k \in 1..Len(FoundLines(items)) |->
                        ItemData(FoundLines(items)[k], laundry_items)]]
          /\ UNCHANGED last

\* create_laundry_order up to its first insert: the role check, the pricing
\* loop over the catalog, the vendor's charges
CreateLookup(user, vendor_id, items) ==
  /\ creating.pc = "idle"
  /\ Len(laundry_orders) < MaxOrders
  /\ UNCHANGED <<laundry_tables, shop_tables, now, procs, refunds, changing, accounts>>
  /\ IF \E k \in 1..Len(items) : items[k].quantity <= 0
     THEN /\ creating' = CreateRefused(user, vendor_id, items, 422, "validation")
          /\ last' = Answer("create", 422)
     ELSE IF Users[user] # "user"
     THEN /\ creating' = CreateRefused(user, vendor_id, items, 403, "only_users")
          /\ last' = Answer("create", 403)
     ELSE IF \E k \in 1..Len(items) :
               items[k].laundry_item_id \notin DOMAIN laundry_items
     THEN /\ creating' =
               CreateRefused(user, vendor_id, items, 400, "item_not_found")
          /\ last' = Answer("create", 400)
     ELSE IF vendor_id \notin DOMAIN laundry_vendors
     THEN /\ creating' =
               CreateRefused(user, vendor_id, items, 400, "vendor_not_found")
          /\ last' = Answer("create", 400)
     ELSE /\ creating' =
               [IdleCreate EXCEPT
                  !.pc = "insert_order", !.user = user,
                  !.vendor_id = vendor_id, !.items = items,
                  !.order_insert_data =
                     <<OrderInsertData(user, vendor_id, items, laundry_items,
                                       laundry_vendors[vendor_id])>>,
                  !.items_data =
                     [k \in 1..Len(items) |-> ItemData(items[k], laundry_items)]]
          /\ UNCHANGED last

\* table("laundry_orders").insert(order_insert_data): the row is stored, or
\* the call raises or returns no data and the request is answered 400
CreateInsertOrder(ok) ==
  /\ creating.pc = "insert_order"
  /\ UNCHANGED <<laundry_items, laundry_vendors, shop_tables, now, procs,
                 refunds, changing, accounts>>
  /\ IF ok
     THEN /\ laundry_orders' =
               Append(laundry_orders, creating.order_insert_data[1])
          /\ laundry_order_items' = Append(laundry_order_items, <<>>)
          /\ creating' = [creating EXCEPT !.pc = "insert_items",
                                          !.order_id = Len(laundry_orders) + 1]
          /\ UNCHANGED last
     ELSE /\ creating' = [creating EXCEPT !.pc = "done", !.code = 400,
                                          !.detail = "failed"]
          /\ last' = Answer("create", 400)
          /\ UNCHANGED <<laundry_orders, laundry_order_items>>

\* table("laundry_order_items").insert(item_data) of the next item: the row is
\* stored, or the call raises and the request is answered 400
CreateInsertItem(ok) ==
  /\ creating.pc = "insert_items"
  /\ Len(laundry_order_items[creating.order_id]) < Len(creating.items_data)
  /\ UNCHANGED <<laundry_items, laundry_vendors, laundry_orders, shop_tables,
                 now, procs, refunds, changing, accounts>>
  /\ IF ok
     THEN /\ laundry_order_items' =
               [laundry_order_items EXCEPT
                  ![creating.order_id] =
                     Append(@, creating.items_data[Len(@) + 1])]
          /\ UNCHANGED <<creating, last>>
     ELSE /\ creating' = [creating EXCEPT !.pc = "done", !.code = 400,
                                          !.detail = "failed"]
          /\ last' = Answer("create", 400)
          /\ UNCHANGED laundry_order_items

\* the answer of create_laundry_order after the last item insert
CreateReturn ==
  /\ creating.pc = "insert_items"
  /\ Len(laundry_order_items[creating.order_id]) = Len(creating.items_data)
  /\ creating' = [creating EXCEPT !.pc = "done", !.code = 200]
  /\ last' = Answer("create", 200)
  /\ UNCHANGED <<laundry_tables, shop_tables, now, procs, refunds, changing, accounts>>

\* --------------------------------------------------------- laundry payment
\* the fields LaundryOrderUpdate declares, as far as this model has them
LaundryOrderUpdateFields == {"status", "pickup_instructions"}

\* LaundryOrderUpdate parsed from a JSON body: a field the model does not
\* declare is dropped
LaundryOrderUpdateOf(body) ==
  [f \in DOMAIN body \cap LaundryOrderUpdateFields |-> body[f]]

\* JSON bodies of PUT /laundry/orders/{order_id}: some that set a status, one
\* that sets another field, one that also carries an amount and one that
\* also carries a payment status
RawOrderUpdates ==
  {[status |-> "delivered"], [status |-> "cancelled"], NoBody,
   [status |-> "confirmed", total_amount |-> Dec(1, 0)],
   [status |-> "cancelled", payment_status |-> "refunded"]}

\* a LaundryPaymentRequest
PaymentMethods == {"dummy", "upi"}

\* payment_reference of process_laundry_payment: "PAY-LND-", the reading of
\* the clock and the head of the order id
PaymentReference(t, order_id) == <<"PAY-LND", t, order_id>>

\* process_laundry_payment whose update also writes the amount paid
ProcessLaundryPayment_Repriced(user, order_id, payment_method) ==
  /\ UNCHANGED <<laundry_items, laundry_vendors, laundry_order_items, now,
                 in_flight, shop_tables, accounts>>
  /\ IF order_id \notin 1..Len(laundry_orders)
     THEN /\ last' = Answer("payment", 404)
          /\ UNCHANGED laundry_orders
     ELSE IF AccessDenied(user, laundry_orders[order_id])
     THEN /\ last' = Answer("payment", 403)
          /\ UNCHANGED laundry_orders
     ELSE /\ laundry_orders' =
               [laundry_orders EXCEPT
                  ![order_id] =
                     ApplyUpdate(@, [payment_status |-> "paid",
                                     payment_method |-> payment_method,
                                     payment_reference |->
                                       PaymentReference(now, order_id),
                                     total_amount |-> Dec(0, 0)])]
          /\ last' = Answer("payment", 200)

\* POST /laundry/orders/{order_id}/payment
ProcessLaundryPayment(user, order_id, payment_method) ==
  /\ UNCHANGED <<laundry_items, laundry_vendors, laundry_order_items, now,
                 in_flight, shop_tables, accounts>>
  /\ IF order_id \notin 1..Len(laundry_orders)
     THEN /\ last' = Answer("payment", 404)
          /\ UNCHANGED laundry_orders
     ELSE IF AccessDenied(user, laundry_orders[order_id])
     THEN /\ last' = Answer("payment", 403)
          /\ UNCHANGED laundry_orders
     ELSE /\ laundry_orders' =
               [laundry_orders EXCEPT
                  ![order_id] =
                     ApplyUpdate(@, [payment_status |-> "paid",
                                     payment_method |-> payment_method,
                                     payment_reference |->
                                       PaymentReference(now, order_id)])]
          /\ last' = Answer("payment", 200)

\* ---------------------------------------------------------------- catalog
\* laundry_items.laundry_vendor_id: the laundry vendor an item belongs to
ItemVendor == [i1 |-> "lv1", i2 |-> "lv1"]

\* a LaundryItemUpdate body: one that sets price_per_piece, or one that sets
\* only another field (name, no column of this model)
ItemUpdates == {[price_per_piece |-> p] : p \in Prices} \cup {[name |-> "n"]}

\* "Verify vendor ownership" of the item handlers: the answer that refuses the
\* request, or 0
VendorOwnership(user, vendor_id) ==
  IF Users[user] = "master" THEN 0
  ELSE IF vendor_id \notin DOMAIN laundry_vendors THEN 404
  ELSE IF vendor_id \notin DOMAIN VendorOwner THEN 403
  ELSE IF VendorOwner[vendor_id] # user THEN 403
  ELSE 0

\* the rows .eq("id", item_id).eq("laundry_vendor_id", vendor_id) selects
ItemRows(vendor_id, item_id) ==
  {i \in DOMAIN laundry_items : i = item_id /\ ItemVendor[i] = vendor_id}

\* update_laundry_item that also rewrites the lines of the orders placed
UpdateLaundryItem_Reprices(user, vendor_id, item_id, item_data) ==
  /\ UNCHANGED <<laundry_vendors, laundry_orders, now,
                 in_flight, shop_tables, accounts>>
  /\ IF VendorOwnership(user, vendor_id) # 0
     THEN /\ last' = Answer("update_item", VendorOwnership(user, vendor_id))
          /\ UNCHANGED <<laundry_items, laundry_order_items>>
     ELSE IF ItemRows(vendor_id, item_id) = {}
     THEN /\ last' = Answer("update_item", 404)
          /\ UNCHANGED <<laundry_items, laundry_order_items>>
     ELSE /\ laundry_items' =
               IF "price_per_piece" \in DOMAIN item_data
               THEN [laundry_items EXCEPT
                       ![item_id] = Float(item_data.price_per_piece)]
               ELSE laundry_items
          /\ laundry_order_items' =
               IF "price_per_piece" \in DOMAIN item_data
               THEN [o \in DOMAIN laundry_order_items |->
                       [k \in DOMAIN laundry_order_items[o] |->
                          IF laundry_order_items[o][k].laundry_item_id = item_id
                          THEN [laundry_order_items[o][k] EXCEPT
                                  !.unit_price = Float(item_data.price_per_piece)]
                          ELSE laundry_order_items[o][k]]]
               ELSE laundry_order_items
          /\ last' = Answer("update_item", 200)

\* PUT /laundry/vendors/{vendor_id}/items/{item_id}
UpdateLaundryItem(user, vendor_id, item_id, item_data) ==
  /\ UNCHANGED <<laundry_vendors, laundry_orders, laundry_order_items, now,
                 in_flight, shop_tables, accounts>>
  /\ IF VendorOwnership(user, vendor_id) # 0
     THEN /\ last' = Answer("update_item", VendorOwnership(user, vendor_id))
          /\ UNCHANGED laundry_items
     ELSE IF ItemRows(vendor_id, item_id) = {}
     THEN /\ last' = Answer("update_item", 404)
          /\ UNCHANGED laundry_items
     ELSE /\ laundry_items' =
               IF "price_per_piece" \in DOMAIN item_data
               THEN [laundry_items EXCEPT
                       ![item_id] = Float(item_data.price_per_piece)]
               ELSE laundry_items
          /\ last' = Answer("update_item", 200)

\* DELETE /laundry/vendors/{vendor_id}/items/{item_id}
DeleteLaundryItem(user, vendor_id, item_id) ==
  /\ UNCHANGED <<laundry_vendors, laundry_orders, laundry_order_items, now,
                 in_flight, shop_tables, accounts>>
  /\ IF VendorOwnership(user, vendor_id) # 0
     THEN /\ last' = Answer("delete_item", VendorOwnership(user, vendor_id))
          /\ UNCHANGED laundry_items
     ELSE IF ItemRows(vendor_id, item_id) = {}
     THEN /\ last' = Answer("delete_item", 404)
          /\ UNCHANGED laundry_items
     ELSE /\ laundry_items' =
               [i \in DOMAIN laundry_items \ {item_id} |-> laundry_items[i]]
          /\ last' = Answer("delete_item", 200)

\* -------------------------------------------------------------- dashboard
\* the calendar: a reading of the clock is a day, a month has MonthLength days
MonthLength == 2

\* today.replace(day=1): the first day of the month of a day
FirstOfMonth(today) == today - ((today - 1) % MonthLength)

\* len([o for o in orders_response.data if o["status"] == s])
CountStatus(rows, s) == Len(SelectSeq(rows, LAMBDA o : o.status = s))

RECURSIVE SumTotals(_, _)
\* sum(Decimal(str(o["total_amount"])) for o in rows): the sum starts at int 0
SumTotals(rows, k) ==
  IF k = 0 THEN Dec(0, 0)
  ELSE DecAdd(SumTotals(rows, k - 1), DecimalOfStr(rows[k].total_amount))

\* sum(... if o["status"] == "delivered" and created_at.date() == today)
TodayRevenue(rows, today) ==
  LET counted ==
        SelectSeq(rows, LAMBDA o : o.status = "delivered" /\ o.created_at = today)
  IN  Float(SumTotals(counted, Len(counted)))

\* the revenue of the month summed whatever the status of the order
MonthlyRevenue_AnyStatus(rows, today) ==
  LET counted == SelectSeq(rows, LAMBDA o : o.created_at >= FirstOfMonth(today))
  IN  Float(SumTotals(counted, Len(counted)))

\* sum(... if o["status"] == "delivered" and created_at.date() >= this_month)
MonthlyRevenue(rows, today) ==
  LET counted ==
        SelectSeq(rows, LAMBDA o : o.status = "delivered"
                                   /\ o.created_at >= FirstOfMonth(today))
  IN  Float(SumTotals(counted, Len(counted)))

\* LaundryVendorStats of the rows of one vendor
VendorStats(rows, today) ==
  [total_orders |-> Len(rows),
   pending_orders |-> CountStatus(rows, "pending"),
   confirmed_orders |-> CountStatus(rows, "confirmed"),
   in_process_orders |-> CountStatus(rows, "in_process"),
   ready_orders |-> CountStatus(rows, "ready"),
   delivered_orders |-> CountStatus(rows, "delivered"),
   cancelled_orders |-> CountStatus(rows, "cancelled"),
   today_revenue |-> TodayRevenue(rows, today),
   monthly_revenue |-> MonthlyRevenue(rows, today)]

\* the answer of the dashboard: the statistics of the vendor asked for
DashboardAnswer(vendor_id, stats) ==
  [op |-> "dashboard", code |-> 200, vendor_id |-> vendor_id, stats |-> stats]

\* GET /laundry/vendors/{vendor_id}/dashboard
GetVendorDashboard(user, vendor_id) ==
  /\ UNCHANGED <<laundry_tables, shop_tables, in_flight, now, accounts>>
  /\ IF VendorOwnership(user, vendor_id) # 0
     THEN last' = Answer("dashboard", VendorOwnership(user, vendor_id))
     ELSE last' =
            DashboardAnswer(
              vendor_id,
              VendorStats(SelectSeq(laundry_orders,
                                    LAMBDA o : o.laundry_vendor_id = vendor_id),
                          now))

\* ----------------------------------------------------- orders and payments
\* OrderStatus
OrderStatuses ==
  {"pending", "confirmed", "in_progress", "completed", "cancelled"}

\* PaymentStatus
PaymentStatuses == {"pending", "paid", "failed", "refunded"}

\* OrderCreate bodies: the total and the items the client sends
OrderRequests ==
  {[vendor_id |-> "v1",
    partner_id |-> NoText,
    total_amount |-> 20,
    items |-> <<[product_id |-> "p1", quantity |-> 2, unit_price |-> 10]>>]}

\* PaymentCreate.amount
Amounts_Paid == {20}

\* order_data of create_order; cancelled_at is the column of the order's
\* cancellation time, which the insert leaves empty
OrderData(user, order) ==
  [user_id |-> user,
   vendor_id |-> order.vendor_id,
   partner_id |-> order.partner_id,
   total_amount |-> order.total_amount,
   status |-> "pending",
   cancelled_at |-> NULL]

\* item_data of create_order for one item of the body
OrderItemData(order_id, item) ==
  [order_id |-> order_id,
   product_id |-> item.product_id,
   quantity |-> item.quantity,
   unit_price |-> item.unit_price,
   total_price |-> item.quantity * item.unit_price]

\* POST /orders/
CreateOrder(user, order) ==
  /\ Len(orders) < MaxOrders
  /\ orders' = Append(orders, OrderData(user, order))
  /\ order_items' =
       order_items \o [k \in 1..Len(order.items) |->
                         OrderItemData(Len(orders) + 1, order.items[k])]
  /\ last' = Answer("create_order", 200)
  /\ UNCHANGED <<laundry_tables, payments, order_status_history, now, in_flight, accounts>>

\* the store call of create_payment that raises, if any
PaymentFaults == {"none", "insert", "mark_paid", "confirm_order"}

\* payment_data of create_payment
PaymentData(user, order_id, amount) ==
  [order_id |-> order_id, user_id |-> user, amount |-> amount,
   status |-> "pending"]

\* POST /payments/: the order is looked up, the payment is inserted pending,
\* marked paid, and the order is set to confirmed; a store call that raises
\* ends the request with 400 and leaves what the calls before it wrote
CreatePayment(user, order_id, amount, fault) ==
  /\ UNCHANGED <<laundry_tables, order_items, order_status_history, now,
                 in_flight, accounts>>
  /\ IF order_id \notin 1..Len(orders)
     THEN /\ last' = Answer("create_payment", 404)
          /\ UNCHANGED <<orders, payments>>
     ELSE IF orders[order_id].user_id # user
     THEN /\ last' = Answer("create_payment", 403)
          /\ UNCHANGED <<orders, payments>>
     ELSE IF fault = "insert"
     THEN /\ last' = Answer("create_payment", 400)
          /\ UNCHANGED <<orders, payments>>
     ELSE /\ Len(payments) < MaxPayments
          /\ payments' =
               Append(payments,
                      [PaymentData(user, order_id, amount) EXCEPT
                         !.status = IF fault = "mark_paid" THEN @ ELSE "paid"])
          /\ orders' =
               IF fault = "none"
               THEN [orders EXCEPT ![order_id].status = "confirmed"]
               ELSE orders
          /\ last' = Answer("create_payment", IF fault = "none" THEN 200 ELSE 400)

\* refund_payment without the check of the payment's status
RefundPayment_NoStatusCheck(user, payment_id) ==
  /\ UNCHANGED <<laundry_tables, order_items, order_status_history, now,
                 in_flight, accounts>>
  /\ IF payment_id \notin 1..Len(payments)
     THEN /\ last' = Answer("refund", 404)
          /\ UNCHANGED <<orders, payments>>
     ELSE /\ payments' = [payments EXCEPT ![payment_id].status = "refunded"]
          /\ orders' =
               [orders EXCEPT ![payments[payment_id].order_id].status = "cancelled"]
          /\ last' = Answer("refund", 200)

\* POST /payments/{payment_id}/refund
RefundPayment(user, payment_id) ==
  /\ UNCHANGED <<laundry_tables, order_items, order_status_history, now,
                 in_flight, accounts>>
  /\ IF payment_id \notin 1..Len(payments)
     THEN /\ last' = Answer("refund", 404)
          /\ UNCHANGED <<orders, payments>>
     ELSE IF payments[payment_id].status # "paid"
     THEN /\ last' = Answer("refund", 400)
          /\ UNCHANGED <<orders, payments>>
     ELSE /\ payments' = [payments EXCEPT ![payment_id].status = "refunded"]
          /\ orders' =
               [orders EXCEPT ![payments[payment_id].order_id].status = "cancelled"]
          /\ last' = Answer("refund", 200)

\* require_role(["admin", "partner", "master"])
StatusRoles == {"admin", "partner", "master"}

\* PUT /orders/{order_id}/status: the HTTPException 404 is raised inside the
\* try block and leaves it as 400
UpdateOrderStatus(user, order_id, new_status) ==
  /\ UNCHANGED <<laundry_tables, order_items, payments, now, in_flight, accounts>>
  /\ IF Users[user] \notin StatusRoles
     THEN /\ last' = Answer("update_status", 403)
          /\ UNCHANGED <<orders, order_status_history>>
     ELSE IF order_id \notin 1..Len(orders)
     THEN /\ last' = Answer("update_status", 400)
          /\ UNCHANGED <<orders, order_status_history>>
     ELSE /\ Len(order_status_history) < MaxHistory
          /\ orders' = [orders EXCEPT ![order_id].status = new_status]
          /\ order_status_history' =
               Append(order_status_history,
                      [order_id |-> order_id, status |-> new_status,
                       changed_by |-> user])
          /\ last' = Answer("update_status", 200)

\* vendors.admin_id: the admin account of a vendor
VendorAdmin == [v1 |-> "adam"]

\* the answer of a handler that returns rows, or refuses and returns none
ReadAnswer(op, code, user, id, rows) ==
  [op |-> op, code |-> code, actor |-> user, id |-> id, rows |-> rows]

\* get_orders whose select has no filter for a user
GetOrders_Unfiltered(user) ==
  /\ UNCHANGED <<laundry_tables, shop_tables, in_flight, now, accounts>>
  /\ last' = ReadAnswer("get_orders", 200, user, 0, orders)

\* GET /orders/
GetOrders(user) ==
  /\ UNCHANGED <<laundry_tables, shop_tables, in_flight, now, accounts>>
  /\ last' =
       ReadAnswer("get_orders", 200, user, 0,
         IF Users[user] = "user"
         THEN SelectSeq(orders, LAMBDA o : o.user_id = user)
         ELSE IF Users[user] \in {"admin", "partner"}
         THEN IF \E v \in DOMAIN VendorAdmin : VendorAdmin[v] = user
              THEN SelectSeq(orders,
                     LAMBDA o : o.vendor_id =
                       CHOOSE v \in DOMAIN VendorAdmin : VendorAdmin[v] = user)
              ELSE SelectSeq(orders, LAMBDA o : o.partner_id = user)
         ELSE orders)

\* GET /orders/{order_id}
GetOrder(user, order_id) ==
  /\ UNCHANGED <<laundry_tables, shop_tables, in_flight, now, accounts>>
  /\ last' =
       IF order_id \notin 1..Len(orders)
       THEN ReadAnswer("get_order", 404, user, order_id, <<>>)
       ELSE IF Users[user] = "user" /\ orders[order_id].user_id # user
       THEN ReadAnswer("get_order", 403, user, order_id, <<>>)
       ELSE ReadAnswer("get_order", 200, user, order_id, <<orders[order_id]>>)

\* GET /payments/
GetPayments(user) ==
  /\ UNCHANGED <<laundry_tables, shop_tables, in_flight, now, accounts>>
  /\ last' =
       ReadAnswer("get_payments", 200, user, 0,
         IF Users[user] = "user"
         THEN SelectSeq(payments, LAMBDA p : p.user_id = user)
         ELSE payments)

\* GET /payments/{payment_id}
GetPayment(user, payment_id) ==
  /\ UNCHANGED <<laundry_tables, shop_tables, in_flight, now, accounts>>
  /\ last' =
       IF payment_id \notin 1..Len(payments)
       THEN ReadAnswer("get_payment", 404, user, payment_id, <<>>)
       ELSE IF Users[user] = "user" /\ payments[payment_id].user_id # user
       THEN ReadAnswer("get_payment", 403, user, payment_id, <<>>)
       ELSE ReadAnswer("get_payment", 200, user, payment_id,
                       <<payments[payment_id]>>)

\* refund_payment up to its first write: the select of the payment and the
\* check of its status
RefundRead(p, user, payment_id) ==
  /\ refunds[p].pc = "idle"
  /\ UNCHANGED <<laundry_tables, shop_tables, now, procs, creating, changing, accounts>>
  /\ IF payment_id \notin 1..Len(payments)
     THEN /\ refunds' = [refunds EXCEPT ![p] =
               [IdleRefund EXCEPT !.pc = "done", !.user = user,
                                  !.payment_id = payment_id, !.code = 404]]
          /\ last' = Answer("refund", 404)
     ELSE IF payments[payment_id].status # "paid"
     THEN /\ refunds' = [refunds EXCEPT ![p] =
               [IdleRefund EXCEPT !.pc = "done", !.user = user,
                                  !.payment_id = payment_id,
                                  !.seen = payments[payment_id].status,
                                  !.order_id = payments[payment_id].order_id,
                                  !.code = 400]]
          /\ last' = Answer("refund", 400)
     ELSE /\ refunds' = [refunds EXCEPT ![p] =
               [IdleRefund EXCEPT !.pc = "write_payment", !.user = user,
                                  !.payment_id = payment_id,
                                  !.seen = payments[payment_id].status,
                                  !.order_id = payments[payment_id].order_id]]
          /\ UNCHANGED last

\* refund_payment: table("payments").update({"status": "refunded"})
RefundWritePayment(p) ==
  /\ refunds[p].pc = "write_payment"
  /\ payments' = [payments EXCEPT ![refunds[p].payment_id].status = "refunded"]
  /\ refunds' = [refunds EXCEPT ![p].pc = "write_order"]
  /\ UNCHANGED <<laundry_tables, orders, order_items, order_status_history,
                 now, procs, creating, changing, last, accounts>>

\* refund_payment: table("orders").update({"status": "cancelled"}), the answer
RefundWriteOrder(p) ==
  /\ refunds[p].pc = "write_order"
  /\ orders' = [orders EXCEPT ![refunds[p].order_id].status = "cancelled"]
  /\ refunds' = [refunds EXCEPT ![p].pc = "done", ![p].code = 200]
  /\ last' = Answer("refund", 200)
  /\ UNCHANGED <<laundry_tables, order_items, payments, order_status_history,
                 now, procs, creating, changing, accounts>>

\* update_order_status up to its write: the role check of require_role
ChangeBegin(user, order_id, new_status) ==
  /\ changing.pc = "idle"
  /\ UNCHANGED <<laundry_tables, shop_tables, now, procs, creating, refunds, accounts>>
  /\ IF Users[user] \notin StatusRoles
     THEN /\ changing' =
               [pc |-> "done", user |-> user, order_id |-> order_id,
                new_status |-> new_status, code |-> 403]
          /\ last' = Answer("update_status", 403)
     ELSE /\ changing' =
               [pc |-> "write", user |-> user, order_id |-> order_id,
                new_status |-> new_status, code |-> 0]
          /\ UNCHANGED last

\* update_order_status from its write on: the update of the order, the row of
\* order_status_history, the answer
ChangeWrite ==
  /\ changing.pc = "write"
  /\ UNCHANGED <<laundry_tables, order_items, payments, now, procs, creating,
                 refunds, accounts>>
  /\ IF changing.order_id \notin 1..Len(orders)
     THEN /\ changing' = [changing EXCEPT !.pc = "done", !.code = 400]
          /\ last' = Answer("update_status", 400)
          /\ UNCHANGED <<orders, order_status_history>>
     ELSE /\ Len(order_status_history) < MaxHistory
          /\ orders' =
               [orders EXCEPT ![changing.order_id].status = changing.new_status]
          /\ order_status_history' =
               Append(order_status_history,
                      [order_id |-> changing.order_id,
                       status |-> changing.new_status,
                       changed_by |-> changing.user])
          /\ changing' = [changing EXCEPT !.pc = "done", !.code = 200]
          /\ last' = Answer("update_status", 200)

\* ---------------------------------------------------------- authentication
\* request.client.host: the peer of the connection, "" when the server has none
Hosts == {"127.0.0.1", "localhost", "::1", "127.0.0.2", "10.0.0.5", ""}

\* the X-Testing header of a request; "absent" is Header(None)
TestingHeaders == {"absent", "true", "True", "TRUE", "false", "1"}

\* the Authorization header of a request: none, the bearer token login gave
\* to an account, or a token no login gave
Credentials == {"absent", "alice", "adam", "forged"}

\* the requests that reach a laundry endpoint, as far as the dependency and
\* the claims look at them
Requests ==
  [host : Hosts, x_testing : TestingHeaders, authorization : Credentials]

\* the mock user of the testing mode
TestUser == [id |-> "test-user-id", role |-> "master"]

\* the outcome of a dependency that raised HTTPException(401)
NotAuthenticated == [id |-> "none", role |-> "none"]

\* the dependency with the check of the host left out
GetCurrentUserOrTesting_AnyHost(request) ==
  IF request.x_testing = "true" THEN TestUser ELSE NotAuthenticated

\* get_current_user_or_testing: the identity a laundry endpoint receives
GetCurrentUserOrTesting(request) ==
  LET is_localhost == request.host \in {"127.0.0.1", "localhost", "::1"}
  IN  IF is_localhost /\ request.x_testing = "true"
      THEN TestUser
      ELSE NotAuthenticated

\* the dependency resolved for one request; the answer keeps the request and
\* the identity
ResolveCurrentUser(request) ==
  /\ UNCHANGED <<laundry_tables, shop_tables, in_flight, now, accounts>>
  /\ last' =
       [op |-> "auth",
        code |-> IF GetCurrentUserOrTesting(request) = NotAuthenticated
                 THEN 401 ELSE 200,
        request |-> request,
        current_user |-> GetCurrentUserOrTesting(request)]

\* POST /laundry/orders with Depends(get_current_user_or_testing): the
\* dependency is resolved before the body is validated and the handler runs
CreateLaundryOrderRequest(request, vendor_id, items) ==
  IF GetCurrentUserOrTesting(request) = NotAuthenticated
  THEN /\ last' = Answer("create", 401)
       /\ UNCHANGED <<laundry_tables, shop_tables, in_flight, now, accounts>>
  ELSE CreateLaundryOrder(GetCurrentUserOrTesting(request).id, vendor_id, items)

\* ---------------------------------------------------------------- accounts
\* UserCreate.email of the registrations
RegisterEmails == {"ann@x.test", "spark_wash@vendor.test"}

\* VendorCreate.name
VendorNames == {"Spark Wash"}

\* VendorCreate.type, two of the four of VendorType
VendorTypes == {"laundry", "food"}

\* vendor.name.lower().replace(' ', '_')
Slug == [n \in VendorNames |-> "spark_wash"]

\* the first email create_vendor tries
VendorEmail(name) == Slug[name] \o "@vendor.test"

\* the email with the vendor type appended
VendorTypeEmail(name, type) == Slug[name] \o "_" \o type \o "@vendor.test"

\* the email with int(time.time()) appended
VendorTimeEmail(name, t) == Slug[name] \o "_" \o ToString(t) \o "@vendor.test"

\* table("users").select("*").eq("email", email) returns a row
EmailExists(email) == \E k \in 1..Len(users) : users[k].email = email

\* the id of the row an insert into users creates
NewUserId ==
  1 + (CHOOSE m \in 0..(Len(users) + MaxUsers + MaxProcs) :
         /\ \A k \in 1..Len(users) : users[k].id <= m
         /\ m = 0 \/ \E k \in 1..Len(users) : users[k].id = m)

\* an insert into users that takes every row
UsersInsertRaises_Never(email) == FALSE

\* the insert into users raises: the store refuses a second row with an
\* email, the email of a user being unique
UsersInsertRaises(email) == EmailExists(email)

\* register up to its insert: the select by email
RegisterCheck(p, email) ==
  /\ signups[p].pc = "idle"
  /\ UNCHANGED <<laundry_tables, shop_tables, in_flight, now, users, vendors>>
  /\ IF EmailExists(email)
     THEN /\ signups' = [signups EXCEPT ![p] =
               [IdleSignup EXCEPT !.pc = "done", !.op = "register",
                                  !.email = email, !.code = 400,
                                  !.detail = "Email already registered"]]
          /\ last' = Answer("register", 400)
     ELSE /\ signups' = [signups EXCEPT ![p] =
               [IdleSignup EXCEPT !.pc = "insert_user", !.op = "register",
                                  !.email = email]]
          /\ UNCHANGED last

\* the insert of register
RegisterInsert(p) ==
  /\ signups[p].pc = "insert_user"
  /\ signups[p].op = "register"
  /\ UNCHANGED <<laundry_tables, shop_tables, in_flight, now, vendors>>
  /\ IF UsersInsertRaises(signups[p].email)
     THEN /\ signups' = [signups EXCEPT ![p].pc = "done", ![p].code = 400,
                                        ![p].detail = "Failed to create user"]
          /\ last' = Answer("register", 400)
          /\ UNCHANGED users
     ELSE /\ Len(users) < MaxUsers
          /\ users' = Append(users, [id |-> NewUserId,
                                     email |-> signups[p].email,
                                     role |-> "user"])
          /\ signups' = [signups EXCEPT ![p].pc = "done", ![p].code = 200,
                                        ![p].user_id = NewUserId]
          /\ last' = Answer("register", 200)

\* create_vendor up to its second select: require_role(["master"]) and the
\* select of the first email
VendorCheck(p, user, name, type) ==
  /\ signups[p].pc = "idle"
  /\ UNCHANGED <<laundry_tables, shop_tables, in_flight, now, users, vendors>>
  /\ IF Users[user] # "master"
     THEN /\ signups' = [signups EXCEPT ![p] =
               [IdleSignup EXCEPT !.pc = "done", !.op = "create_vendor",
                                  !.name = name, !.type = type, !.code = 403]]
          /\ last' = Answer("create_vendor", 403)
     ELSE /\ signups' = [signups EXCEPT ![p] =
               [IdleSignup EXCEPT
                  !.pc = IF EmailExists(VendorEmail(name))
                         THEN "check_type" ELSE "insert_user",
                  !.op = "create_vendor", !.name = name, !.type = type,
                  !.email = VendorEmail(name)]]
          /\ UNCHANGED last

\* the second select of create_vendor, and the email it settles on
VendorCheckType(p) ==
  /\ signups[p].pc = "check_type"
  /\ UNCHANGED <<laundry_tables, shop_tables, in_flight, now, users, vendors,
                 last>>
  /\ signups' = [signups EXCEPT
       ![p].pc = "insert_user",
       ![p].email =
          IF EmailExists(VendorTypeEmail(signups[p].name, signups[p].type))
          THEN VendorTimeEmail(signups[p].name, now)
          ELSE VendorTypeEmail(signups[p].name, signups[p].type)]

\* the insert into users of create_vendor
VendorInsertUser(p) ==
  /\ signups[p].pc = "insert_user"
  /\ signups[p].op = "create_vendor"
  /\ UNCHANGED <<laundry_tables, shop_tables, in_flight, now, vendors>>
  /\ IF UsersInsertRaises(signups[p].email)
     THEN /\ signups' = [signups EXCEPT ![p].pc = "done", ![p].code = 400]
          /\ last' = Answer("create_vendor", 400)
          /\ UNCHANGED users
     ELSE /\ Len(users) < MaxUsers
          /\ users' = Append(users, [id |-> NewUserId,
                                     email |-> signups[p].email,
                                     role |-> "vendor"])
          /\ signups' = [signups EXCEPT ![p].pc = "insert_vendor",
                                        ![p].user_id = NewUserId]
          /\ UNCHANGED last

\* what the insert into vendors does: it stores the row, returns no data, or
\* raises
VendorFaults == {"none", "empty", "raise"}

\* the insert into vendors of create_vendor
VendorInsertVendor(p, fault) ==
  /\ signups[p].pc = "insert_vendor"
  /\ UNCHANGED <<laundry_tables, shop_tables, in_flight, now, users>>
  /\ IF fault = "raise"
     THEN /\ signups' = [signups EXCEPT ![p].pc = "done", ![p].code = 400]
          /\ last' = Answer("create_vendor", 400)
          /\ UNCHANGED vendors
     ELSE IF fault = "empty"
     THEN /\ signups' = [signups EXCEPT ![p].pc = "clean_up"]
          /\ UNCHANGED <<vendors, last>>
     ELSE /\ vendors' = Append(vendors, [name |-> signups[p].name,
                                         type |-> signups[p].type,
                                         user_id |-> signups[p].user_id,
                                         email |-> signups[p].email])
          /\ signups' = [signups EXCEPT
               ![p].vendor_id = Len(vendors) + 1,
               ![p].pc = IF signups[p].type = "laundry"
                         THEN "insert_profile" ELSE "done",
               ![p].code = IF signups[p].type = "laundry" THEN 0 ELSE 200]
          /\ IF signups[p].type = "laundry"
             THEN UNCHANGED last
             ELSE last' = Answer("create_vendor", 200)

\* the delete of the user account after an insert into vendors that returned
\* no data
VendorCleanUp(p) ==
  /\ signups[p].pc = "clean_up"
  /\ UNCHANGED <<laundry_tables, shop_tables, in_flight, now, vendors>>
  /\ users' = SelectSeq(users, LAMBDA u : u.id # signups[p].user_id)
  /\ signups' = [signups EXCEPT ![p].pc = "done", ![p].code = 400]
  /\ last' = Answer("create_vendor", 400)

\* the id of the laundry_vendors row of a vendor
LaundryVendorIdOf(vendor_id) == "lv-" \o ToString(vendor_id)

\* the insert into laundry_vendors of create_vendor, for a vendor of type
\* laundry
VendorInsertProfile(p, ok) ==
  /\ signups[p].pc = "insert_profile"
  /\ UNCHANGED <<laundry_items, laundry_orders, laundry_order_items,
                 shop_tables, in_flight, now, users, vendors>>
  /\ IF ok
     THEN /\ laundry_vendors' =
               (LaundryVendorIdOf(signups[p].vendor_id) :>
                  [pickup_charge |-> Dec(20, 0), delivery_charge |-> Dec(30, 0)])
               @@ laundry_vendors
          /\ signups' = [signups EXCEPT ![p].pc = "done", ![p].code = 200]
          /\ last' = Answer("create_vendor", 200)
     ELSE /\ signups' = [signups EXCEPT ![p].pc = "done", ![p].code = 400]
          /\ last' = Answer("create_vendor", 400)
          /\ UNCHANGED laundry_vendors

\* --------------------------------------------------------- specifications
\* the cart of the orders whose lifecycle is followed
LifecycleCart == <<[laundry_item_id |-> "i1", quantity |-> 1]>>

\* alice places the orders; root is refused, as every account that is no user
CreateStep ==
  \E user \in {"alice", "root"} : CreateLaundryOrder(user, "lv1", LifecycleCart)

UpdateStep ==
  \E user \in UserIds, order_id \in 1..MaxOrders, order_data \in OrderUpdates :
    UpdateLaundryOrder(user, order_id, order_data)

Next == CreateStep \/ UpdateStep

\* requests handled one after the other, within one reading of the clock
Spec == Init /\ [][Next]_vars

NextClock == CreateStep \/ UpdateStep \/ Tick

\* requests handled one after the other while time passes
SpecClock == Init /\ [][NextClock]_vars

\* the first order of a store, placed with any cart
PriceStep ==
  /\ laundry_orders = <<>>
  /\ \E user \in {"alice", "root"}, vendor_id \in LaundryVendorIds \cup {"lv9"},
        items \in Carts :
       CreateLaundryOrder(user, vendor_id, items)

NextPricing == PriceStep

\* orders priced from every catalog and every vendor charge
SpecPricing == InitPricing /\ [][NextPricing]_vars

ReadStep ==
  \E p \in 1..MaxProcs, user \in {"alice", "vera", "root"},
     order_id \in 1..MaxOrders,
     order_data \in {[status |-> "confirmed"], [status |-> "cancelled"]} :
    UpdateRead(p, user, order_id, order_data)

WriteStep == \E p \in 1..MaxProcs : UpdateWrite(p)

NextConc == CreateStep \/ ReadStep \/ WriteStep

\* update requests whose store calls interleave
SpecConc == Init /\ [][NextConc]_vars

\* the cart of the reference scenario: 2 pieces of i1 and 1 piece of i2
CatalogCart ==
  <<[laundry_item_id |-> "i1", quantity |-> 2],
    [laundry_item_id |-> "i2", quantity |-> 1]>>

CatalogCreateStep == CreateLaundryOrder("alice", "lv1", CatalogCart)

UpdateItemStep ==
  \E user \in {"alice", "vera", "root"}, vendor_id \in LaundryVendorIds \cup {"lv9"},
     item_id \in LaundryItemIds \cup {"i9"}, item_data \in ItemUpdates :
    UpdateLaundryItem(user, vendor_id, item_id, item_data)

DeleteItemStep ==
  \E user \in {"alice", "vera", "root"}, vendor_id \in LaundryVendorIds \cup {"lv9"},
     item_id \in LaundryItemIds \cup {"i9"} :
    DeleteLaundryItem(user, vendor_id, item_id)

NextCatalog == CatalogCreateStep \/ UpdateItemStep \/ DeleteItemStep

\* orders placed while the vendor and the master edit the catalog
SpecCatalog == Init /\ [][NextCatalog]_vars

RawUpdateStep ==
  \E user \in {"alice", "bob", "vera", "root"}, order_id \in 1..MaxOrders,
     body \in RawOrderUpdates :
    UpdateLaundryOrder(user, order_id, LaundryOrderUpdateOf(body))

PaymentStep ==
  \E user \in {"alice", "bob", "vera", "root"}, order_id \in 1..MaxOrders,
     payment_method \in PaymentMethods :
    ProcessLaundryPayment(user, order_id, payment_method)

NextPayment == CreateStep \/ RawUpdateStep \/ PaymentStep

\* orders that are updated and paid, one request after the other
SpecPayment == Init /\ [][NextPayment]_vars

LookupStep ==
  \E user \in {"alice", "root"}, vendor_id \in LaundryVendorIds \cup {"lv9"},
     items \in Carts :
    CreateLookup(user, vendor_id, items)

InsertOrderStep == \E ok \in BOOLEAN : CreateInsertOrder(ok)

InsertItemStep == \E ok \in BOOLEAN : CreateInsertItem(ok)

NextCreate == LookupStep \/ InsertOrderStep \/ InsertItemStep \/ CreateReturn

\* one create_laundry_order request, followed store call by store call, each
\* insert of which may fail
SpecCreate == Init /\ [][NextCreate]_vars

CreateOrderStep ==
  \E user \in {"alice", "bob"}, order \in OrderRequests : CreateOrder(user, order)

CreatePaymentStep ==
  \E user \in {"alice", "bob", "adam", "root"}, order_id \in 1..MaxOrders,
     amount \in Amounts_Paid, fault \in PaymentFaults :
    CreatePayment(user, order_id, amount, fault)

RefundStep ==
  \E user \in {"alice", "bob", "adam", "root"}, payment_id \in 1..MaxPayments :
    RefundPayment(user, payment_id)

StatusStep ==
  \E user \in {"alice", "adam", "root"}, order_id \in 1..MaxOrders,
     new_status \in OrderStatuses :
    UpdateOrderStatus(user, order_id, new_status)

NextRefund == CreateOrderStep \/ CreatePaymentStep \/ RefundStep

\* orders that are paid and refunded, one request after the other
SpecRefund == Init /\ [][NextRefund]_vars

NextShop == CreateOrderStep \/ CreatePaymentStep \/ RefundStep \/ StatusStep

\* orders that are paid, refunded and moved by the staff, one request after
\* the other
SpecShop == Init /\ [][NextShop]_vars

\* alice places an order and pays it
PaidOrderStep ==
  \/ \E order \in OrderRequests : CreateOrder("alice", order)
  \/ \E order_id \in 1..MaxOrders, amount \in Amounts_Paid :
       CreatePayment("alice", order_id, amount, "none")

RefundReadStep ==
  \E p \in 1..MaxProcs, user \in {"alice", "root"}, payment_id \in 1..MaxPayments :
    RefundRead(p, user, payment_id)

RefundWriteStep ==
  \E p \in 1..MaxProcs : RefundWritePayment(p) \/ RefundWriteOrder(p)

\* a request of the staff that arrives while a refund is between its read and
\* its last write
ChangeBeginStep ==
  /\ \E p \in 1..MaxProcs : refunds[p].pc \in {"write_payment", "write_order"}
  /\ \E user \in {"alice", "adam"}, order_id \in 1..MaxOrders,
        new_status \in OrderStatuses :
       ChangeBegin(user, order_id, new_status)

NextRefundConc ==
  PaidOrderStep \/ RefundReadStep \/ RefundWriteStep \/ ChangeBeginStep
  \/ ChangeWrite

\* refund requests whose store calls interleave with each other and with an
\* update_order_status request
SpecRefundConc == Init /\ [][NextRefundConc]_vars

RegisterCheckStep ==
  \E p \in 1..MaxProcs, email \in RegisterEmails : RegisterCheck(p, email)

RegisterInsertStep == \E p \in 1..MaxProcs : RegisterInsert(p)

VendorCheckStep ==
  \E p \in 1..MaxProcs, user \in {"root", "adam"}, name \in VendorNames,
     type \in VendorTypes :
    VendorCheck(p, user, name, type)

VendorCheckTypeStep == \E p \in 1..MaxProcs : VendorCheckType(p)

VendorInsertUserStep == \E p \in 1..MaxProcs : VendorInsertUser(p)

VendorInsertVendorStep ==
  \E p \in 1..MaxProcs, fault \in VendorFaults : VendorInsertVendor(p, fault)

VendorCleanUpStep == \E p \in 1..MaxProcs : VendorCleanUp(p)

VendorInsertProfileStep ==
  \E p \in 1..MaxProcs, ok \in BOOLEAN : VendorInsertProfile(p, ok)

\* the emails create_vendor tries before the one with the time: the name, and
\* the name with the type
FallbackEmails == 2

\* the row of users that the k-th create_vendor request for a food vendor of
\* one name left, the requests coming one after the other
EarlierVendorUser(name, k) ==
  [id |-> k + 1,
   email |-> IF k = 1 THEN VendorEmail(name) ELSE VendorTypeEmail(name, "food"),
   role |-> "vendor"]

\* the row of vendors of the same request
EarlierVendor(name, k) ==
  [name |-> name, type |-> "food", user_id |-> k + 1,
   email |-> EarlierVendorUser(name, k).email]

\* the store after none, one or two food vendors of one name were created
InitSignups ==
  /\ laundry_items =
       [i \in LaundryItemIds |-> IF i = "i1" THEN Dec(50, 0) ELSE Dec(30, 0)]
  /\ laundry_vendors =
       [v \in LaundryVendorIds |->
          [pickup_charge |-> Dec(20, 0), delivery_charge |-> Dec(30, 0)]]
  /\ laundry_orders = <<>>
  /\ laundry_order_items = <<>>
  /\ now = 1
  /\ procs = [p \in 1..MaxProcs |-> Idle]
  /\ last = Answer("none", 0)
  /\ orders = <<>>
  /\ order_items = <<>>
  /\ payments = <<>>
  /\ order_status_history = <<>>
  /\ creating = IdleCreate
  /\ refunds = [p \in 1..MaxProcs |-> IdleRefund]
  /\ changing = IdleChange
  /\ signups = [p \in 1..MaxProcs |-> IdleSignup]
  /\ \E n \in 0..FallbackEmails, name \in VendorNames :
       /\ users = <<MasterRow>> \o [k \in 1..n |-> EarlierVendorUser(name, k)]
       /\ vendors = [k \in 1..n |-> EarlierVendor(name, k)]

NextAccounts ==
  RegisterCheckStep \/ RegisterInsertStep \/ VendorCheckStep
  \/ VendorCheckTypeStep \/ VendorInsertUserStep \/ VendorInsertVendorStep
  \/ VendorCleanUpStep \/ VendorInsertProfileStep \/ Tick

\* register and create_vendor requests whose store calls interleave while
\* time passes
SpecAccounts == InitSignups /\ [][NextAccounts]_vars

\* what became of an order: never paid, paid, or paid and refunded
Fates == {"unpaid", "paid", "refunded"}

\* the row of an order of a user, after the requests that gave it its fate:
\* create_order, then create_payment, then refund_payment
OrderRowOf(user, fate) ==
  [OrderData(user, CHOOSE r \in OrderRequests : TRUE) EXCEPT
     !.status = IF fate = "unpaid" THEN "pending"
                ELSE IF fate = "paid" THEN "confirmed"
                ELSE "cancelled"]

\* the row of the payment of an order that has one
PaymentRowOf(user, order_id, fate) ==
  [PaymentData(user, order_id, CHOOSE a \in Amounts_Paid : TRUE) EXCEPT
     !.status = fate]

\* the table orders after up to MaxRows orders of alice and bob, and the
\* table payments with the payments of those that were paid
InitReads ==
  /\ laundry_items =
       [i \in LaundryItemIds |-> IF i = "i1" THEN Dec(50, 0) ELSE Dec(30, 0)]
  /\ laundry_vendors =
       [v \in LaundryVendorIds |->
          [pickup_charge |-> Dec(20, 0), delivery_charge |-> Dec(30, 0)]]
  /\ laundry_orders = <<>>
  /\ laundry_order_items = <<>>
  /\ now = 1
  /\ procs = [p \in 1..MaxProcs |-> Idle]
  /\ last = Answer("none", 0)
  /\ creating = IdleCreate
  /\ refunds = [p \in 1..MaxProcs |-> IdleRefund]
  /\ changing = IdleChange
  /\ order_status_history = <<>>
  /\ InitAccounts
  /\ \E n \in 0..MaxRows :
       \E owner_of \in [1..n -> {"alice", "bob"}], fate_of \in [1..n -> Fates] :
         LET paid_ids == SelectSeq([k \in 1..n |-> k],
                                   LAMBDA k : fate_of[k] # "unpaid")
         IN  /\ orders = [k \in 1..n |-> OrderRowOf(owner_of[k], fate_of[k])]
             /\ order_items =
                  [k \in 1..n |->
                     OrderItemData(k, (CHOOSE r \in OrderRequests : TRUE).items[1])]
             /\ payments =
                  [j \in 1..Len(paid_ids) |->
                     PaymentRowOf(owner_of[paid_ids[j]], paid_ids[j],
                                  fate_of[paid_ids[j]])]

GetOrdersStep == \E user \in {"alice", "bob", "adam", "pat", "root"} : GetOrders(user)

GetOrderStep ==
  \E user \in {"alice", "bob", "adam", "root"}, order_id \in 1..MaxRows + 1 :
    GetOrder(user, order_id)

GetPaymentsStep == \E user \in {"alice", "bob", "adam", "root"} : GetPayments(user)

GetPaymentStep ==
  \E user \in {"alice", "bob", "adam", "root"}, payment_id \in 1..MaxRows + 1 :
    GetPayment(user, payment_id)

NextReads == GetOrdersStep \/ GetOrderStep \/ GetPaymentsStep \/ GetPaymentStep

\* the read requests of every account on every content of the tables
SpecReads == InitReads /\ [][NextReads]_vars

AuthStep == \E request \in Requests : ResolveCurrentUser(request)

\* the carts of the reference scenarios, and one with a quantity of 0
GatewayCarts ==
  {CatalogCart, LifecycleCart, <<[laundry_item_id |-> "i1", quantity |-> 0]>>}

CreateRequestStep ==
  \E request \in Requests, vendor_id \in LaundryVendorIds \cup {"lv9"},
     items \in GatewayCarts :
    CreateLaundryOrderRequest(request, vendor_id, items)

NextGateway == AuthStep \/ CreateRequestStep

\* requests that reach the laundry router from any host, with any X-Testing
\* header and any credential
SpecGateway == Init /\ [][NextGateway]_vars

\* the laundry vendors of a store with two of them
DashboardVendors == {"lv1", "lv2"}

\* an order as some days of requests leave it: the row placed on a day, then
\* taken to a status
DashboardRow(placed, created_at, status) ==
  ApplyUpdate([placed EXCEPT !.created_at = created_at],
              IF status = DefaultStatus THEN NoBody
              ELSE UpdateData([status |-> status], created_at))

\* a store on some day, with up to MaxRows orders of the two vendors, placed
\* on that day or before, a later row no earlier than the row before it, and
\* in any status
InitDashboard ==
  /\ laundry_items =
       [i \in LaundryItemIds |-> IF i = "i1" THEN Dec(50, 0) ELSE Dec(30, 0)]
  /\ laundry_vendors =
       [v \in DashboardVendors |->
          [pickup_charge |-> Dec(20, 0), delivery_charge |-> Dec(30, 0)]]
  /\ now \in 1..MaxDay
  /\ LET placed ==
           [v \in DashboardVendors |->
              OrderInsertData("alice", v, CatalogCart, laundry_items,
                              laundry_vendors[v])]
     IN  \E n \in 0..MaxRows :
           \E day_of \in [1..n -> 1..now] :
             /\ \A k \in 2..n : day_of[k - 1] <= day_of[k]
             /\ \E vendor_of \in [1..n -> DashboardVendors],
                   status_of \in [1..n -> Statuses] :
                  laundry_orders =
                    [k \in 1..n |->
                       DashboardRow(placed[vendor_of[k]], day_of[k],
                                    status_of[k])]
  /\ laundry_order_items =
       [k \in 1..Len(laundry_orders) |->
          [j \in 1..Len(CatalogCart) |-> ItemData(CatalogCart[j], laundry_items)]]
  /\ procs = [p \in 1..MaxProcs |-> Idle]
  /\ last = Answer("none", 0)
  /\ InitShop

\* the first request a store gets
DashboardStep ==
  /\ last = Answer("none", 0)
  /\ \E user \in {"alice", "vera", "root"}, vendor_id \in DashboardVendors \cup {"lv9"} :
       GetVendorDashboard(user, vendor_id)

NextDashboard == DashboardStep

\* dashboards asked of every store
SpecDashboard == InitDashboard /\ [][NextDashboard]_vars

\* ------------------------------------------------------------------ claims
OrderIds == 1..Len(laundry_orders)

TerminalStatuses == {"delivered", "cancelled"}

HappyPath == <<"pending", "confirmed", "picked_up", "ready", "delivered">>

\* the state graph of the lifecycle: the next stage, or cancelled from a
\* status that is not terminal
IsEdge(s, t) ==
  \/ \E i \in 1..(Len(HappyPath) - 1) : HappyPath[i] = s /\ HappyPath[i + 1] = t
  \/ t = "cancelled" /\ s \notin TerminalStatuses

StampOf ==
  [confirmed |-> "confirmed_at", picked_up |-> "picked_up_at",
   ready |-> "ready_at", delivered |-> "delivered_at",
   cancelled |-> "cancelled_at"]

StampedStatuses == DOMAIN StampOf

TimestampFields == {StampOf[s] : s \in StampedStatuses}

\* an answer that rejects the request as an illegal transition or a lost
\* race: a 4xx that is neither 403 (PermissionDenied) nor 404 (NotFound)
IsInvalidTransition(answer) == answer.code \in {400, 409, 422}

\* C1: a request that passes the permission check and asks for another status
\* of an order that is delivered or cancelled is rejected as an invalid
\* transition, and the stored status stays what it was.
C1_TerminalAbsorbing ==
  [][\A user \in UserIds, o \in OrderIds, s \in Statuses :
       ( /\ laundry_orders[o].status \in TerminalStatuses
         /\ s # laundry_orders[o].status
         /\ ~AccessDenied(user, laundry_orders[o])
         /\ UpdateLaundryOrder(user, o, [status |-> s]) )
       => ( /\ laundry_orders'[o].status = laundry_orders[o].status
            /\ IsInvalidTransition(last') )]_vars

\* C2: a request that passes the permission check changes the status from s
\* to another status t only along an edge of the state graph; a request for
\* another status that is no edge away is rejected as an invalid transition
\* and leaves the order as it was.
C2_OnlyEdgesAccepted ==
  [][\A user \in UserIds, o \in OrderIds, t \in Statuses :
       ( /\ ~AccessDenied(user, laundry_orders[o])
         /\ t # laundry_orders[o].status
         /\ ~IsEdge(laundry_orders[o].status, t)
         /\ UpdateLaundryOrder(user, o, [status |-> t]) )
       => ( /\ laundry_orders'[o] = laundry_orders[o]
            /\ IsInvalidTransition(last') )]_vars

\* C3: no order has both delivered_at and cancelled_at set.
C3_OneTerminalTimestamp ==
  \A o \in OrderIds :
    ~(laundry_orders[o].delivered_at # NULL /\ laundry_orders[o].cancelled_at # NULL)

\* C4: a request for status cancelled from an account that neither placed the
\* order nor is a master is answered 403, and status and cancelled_at of the
\* order stay as they were.
C4_CancelOnlyByOwnerOrMaster ==
  [][\A user \in UserIds, o \in OrderIds :
       ( /\ user # laundry_orders[o].user_id
         /\ Users[user] # "master"
         /\ UpdateLaundryOrder(user, o, [status |-> "cancelled"]) )
       => ( /\ last'.code = 403
            /\ laundry_orders'[o].status = laundry_orders[o].status
            /\ laundry_orders'[o].cancelled_at = laundry_orders[o].cancelled_at )]_vars

\* C5: a request to take an order to another status of the happy path, from
\* an account that neither owns the order's vendor nor is a master, is
\* answered 403 and leaves the order as it was.
C5_AdvanceOnlyByVendorOrMaster ==
  [][\A user \in UserIds, o \in OrderIds, t \in Statuses \ {"cancelled"} :
       ( /\ user # VendorOwner[laundry_orders[o].laundry_vendor_id]
         /\ Users[user] # "master"
         /\ t # laundry_orders[o].status
         /\ UpdateLaundryOrder(user, o, [status |-> t]) )
       => ( /\ last'.code = 403
            /\ laundry_orders'[o] = laundry_orders[o] )]_vars

\* C6: of two requests that both read the same order as pending, one for
\* confirmed and one for cancelled, exactly one is answered 200 and the other
\* is rejected as a conflict or an invalid transition, and the order does not
\* carry both confirmed_at and cancelled_at.
C6_OneWriterWins ==
  \A p, q \in 1..MaxProcs :
    ( /\ p # q
      /\ procs[p].pc = "done" /\ procs[q].pc = "done"
      /\ procs[p].order_id = procs[q].order_id
      /\ procs[p].seen = "pending" /\ procs[q].seen = "pending"
      /\ procs[p].order_data.status = "confirmed"
      /\ procs[q].order_data.status = "cancelled" )
    => ( /\ \/ procs[p].code = 200 /\ IsInvalidTransition(procs[q])
            \/ procs[q].code = 200 /\ IsInvalidTransition(procs[p])
         /\ LET order == laundry_orders[procs[p].order_id]
            IN  ~(order.confirmed_at # NULL /\ order.cancelled_at # NULL) )

\* C7: every order whose status is confirmed, picked_up, ready, delivered or
\* cancelled has the timestamp of that status set: a status other than the
\* initial one is only ever stored by an accepted request, together with its
\* timestamp.
C7_StatusIsStamped ==
  \A o \in OrderIds :
    laundry_orders[o].status \in StampedStatuses
    => laundry_orders[o][StampOf[laundry_orders[o].status]] # NULL

\* an order was taken to delivered by an accepted request
C7_Witness ==
  /\ last = Answer("update", 200)
  /\ \E o \in OrderIds :
       /\ laundry_orders[o].status = "delivered"
       /\ laundry_orders[o].delivered_at # NULL

\* C8: a transition timestamp that is set is never cleared nor replaced by
\* another value.
C8_TimestampsKept ==
  [][\A o \in OrderIds, f \in TimestampFields :
       laundry_orders[o][f] # NULL
       => laundry_orders'[o][f] = laundry_orders[o][f]]_vars

\* the value of a stored amount in units of 0.0001
Units(d) == d.c * 10^(4 + d.e)

RECURSIVE SumLines(_, _)
\* the sum of unit_price * quantity over the first k item rows
SumLines(rows, k) ==
  IF k = 0 THEN 0
  ELSE SumLines(rows, k - 1) + Units(rows[k].unit_price) * rows[k].quantity

\* C9: for every stored order, total_amount = subtotal + pickup_charge +
\* delivery_charge + tax_amount exactly, and subtotal is the sum of
\* unit_price * quantity over its item rows.
C9_TotalIsSum ==
  \A o \in OrderIds :
    LET order == laundry_orders[o]
    IN  /\ Units(order.total_amount) =
             Units(order.subtotal) + Units(order.pickup_charge)
             + Units(order.delivery_charge) + Units(order.tax_amount)
        /\ Units(order.subtotal) =
             SumLines(laundry_order_items[o], Len(laundry_order_items[o]))

\* the reference scenario: lines 50.00 x 2 and 30.00 x 1, charges 20.00 and
\* 30.00, stored with subtotal 130.00, tax 32.40 and total 212.40
C9_Witness ==
  \E o \in OrderIds :
    LET order == laundry_orders[o]
        rows == laundry_order_items[o]
    IN  /\ Len(rows) = 2
        /\ Units(rows[1].unit_price) = 500000 /\ rows[1].quantity = 2
        /\ Units(rows[2].unit_price) = 300000 /\ rows[2].quantity = 1
        /\ Units(order.pickup_charge) = 200000
        /\ Units(order.delivery_charge) = 300000
        /\ Units(order.subtotal) = 1300000
        /\ Units(order.tax_amount) = 324000
        /\ Units(order.total_amount) = 2124000

\* x, a count of 0.000001, rounded half-up to a count of 0.01
RoundHalfUpToCents(x) == (x + 5000) \div 10000

\* C10: for every stored order, tax_amount is 18% of subtotal + pickup_charge
\* + delivery_charge rounded half-up to two decimal places, and tax_amount
\* and total_amount have at most two decimal places.
C10_TaxRoundedToMinorUnit ==
  \A o \in OrderIds :
    LET order == laundry_orders[o]
        base == Units(order.subtotal) + Units(order.pickup_charge)
                + Units(order.delivery_charge)
    IN  /\ Units(order.tax_amount) = RoundHalfUpToCents(base * 18) * 100
        /\ order.tax_amount.e >= -2
        /\ order.total_amount.e >= -2

\* C11: every stored laundry order has at least one item row: a request with
\* an empty items list creates no row of laundry_orders.
C11_ItemsNonEmpty ==
  \A o \in OrderIds : Len(laundry_order_items[o]) > 0

\* the amounts of an order row
Amounts(order) ==
  <<order.subtotal, order.pickup_charge, order.delivery_charge,
    order.tax_amount, order.total_amount>>

\* C12: no step changes the item rows or the amounts of an order that exists,
\* whatever update_laundry_item and delete_laundry_item do to the catalog; and
\* the unit_price of every row of a new order is the price the catalog holds
\* when the order is placed.
C12_PriceSnapshot ==
  [][ /\ \A o \in OrderIds :
           /\ laundry_order_items'[o] = laundry_order_items[o]
           /\ Amounts(laundry_orders'[o]) = Amounts(laundry_orders[o])
      /\ \A o \in (1..Len(laundry_orders')) \ OrderIds :
           \A k \in 1..Len(laundry_order_items'[o]) :
             LET row == laundry_order_items'[o][k]
             IN  /\ Units(row.unit_price) = Units(laundry_items[row.laundry_item_id])
                 /\ Units(row.total_price) = Units(row.unit_price) * row.quantity
    ]_vars

\* an order holds a line whose catalog entry was re-priced or deleted after
\* the order was placed
C12_Witness ==
  /\ last.op \in {"update_item", "delete_item"} /\ last.code = 200
  /\ \E o \in OrderIds : \E k \in 1..Len(laundry_order_items[o]) :
       LET row == laundry_order_items[o][k]
       IN  \/ row.laundry_item_id \notin DOMAIN laundry_items
           \/ Units(laundry_items[row.laundry_item_id]) # Units(row.unit_price)

\* C13: no update_laundry_order and no process_laundry_payment request changes
\* subtotal, pickup_charge, delivery_charge, tax_amount or total_amount of an
\* order that exists.
C13_AmountsImmutable ==
  [][\A o \in OrderIds :
       Amounts(laundry_orders'[o]) = Amounts(laundry_orders[o])]_vars

\* an order was taken to another status and paid
C13_Witness ==
  /\ last = Answer("payment", 200)
  /\ \E o \in OrderIds :
       /\ laundry_orders[o].payment_status = "paid"
       /\ laundry_orders[o].status = "delivered"

\* C14: a create_laundry_order request of a user with valid quantities and a
\* line, at any position, whose item the catalog does not hold is answered
\* 400 "Item ... not found" before any insert: the store holds no row of
\* laundry_orders and none of laundry_order_items.
C14_ItemNotFound ==
  ( /\ creating.pc # "idle"
    /\ Users[creating.user] = "user"
    /\ \A k \in 1..Len(creating.items) : creating.items[k].quantity > 0
    /\ \E k \in 1..Len(creating.items) :
         creating.items[k].laundry_item_id \notin DOMAIN laundry_items )
  => ( /\ creating.pc = "done"
       /\ creating.code = 400
       /\ creating.detail = "item_not_found"
       /\ laundry_orders = <<>>
       /\ laundry_order_items = <<>> )

\* a request whose second line names the missing item, after a first line
\* that was found, has been answered
C14_Witness ==
  /\ creating.pc = "done"
  /\ creating.detail = "item_not_found"
  /\ Len(creating.items) = 2
  /\ creating.items[1].laundry_item_id \in DOMAIN laundry_items
  /\ creating.items[2].laundry_item_id \notin DOMAIN laundry_items

\* C15: when create_laundry_order is answered with an error after its order
\* row was inserted, that order is flagged incomplete or has an item row for
\* every requested line.
C15_AllOrNothing ==
  ( /\ creating.pc = "done"
    /\ creating.code # 200
    /\ creating.order_id # 0 )
  => \/ laundry_orders[creating.order_id].status = "incomplete"
     \/ Len(laundry_order_items[creating.order_id]) = Len(creating.items)

PaymentIds == 1..Len(payments)

\* C16: refund_payment on a payment that is not paid (pending, failed or
\* refunded already) is answered 400 "Can only refund paid payments" and
\* changes no payment and no order.
C16_OnlyPaidRefundable ==
  [][\A user \in UserIds, p \in PaymentIds :
       ( /\ payments[p].status # "paid"
         /\ RefundPayment(user, p) )
       => ( /\ last' = Answer("refund", 400)
            /\ payments' = payments
            /\ orders' = orders )]_vars

\* the second refund of a payment was refused
C16_Witness ==
  /\ last = Answer("refund", 400)
  /\ \E p \in PaymentIds : payments[p].status = "refunded"

\* C17: a step that takes a payment from paid to refunded leaves the order of
\* the payment cancelled, with cancelled_at set.
C17_RefundCancelsOrder ==
  [][\A p \in PaymentIds :
       ( /\ payments[p].status = "paid"
         /\ payments'[p].status = "refunded" )
       => ( /\ orders'[payments[p].order_id].status = "cancelled"
            /\ orders'[payments[p].order_id].cancelled_at # NULL )]_vars

\* C18: create_payment is answered 404 for an order that does not exist and
\* 403 for an actor who neither owns the order nor is a master, with no new
\* payment row either way; the owner and a master are not answered 403.
C18_PaymentPermission ==
  [][\A user \in UserIds, o \in 1..MaxOrders, amount \in Amounts_Paid,
        fault \in PaymentFaults :
       CreatePayment(user, o, amount, fault)
       => IF o \notin 1..Len(orders)
          THEN last'.code = 404 /\ payments' = payments
          ELSE IF orders[o].user_id # user /\ Users[user] # "master"
          THEN last'.code = 403 /\ payments' = payments
          ELSE last'.code # 403]_vars

\* C19: a create_payment answered 200 leaves the new payment paid, an order
\* that was pending confirmed, and an order in any other status as it was.
C19_ConfirmsOnlyPending ==
  [][\A user \in UserIds, o \in 1..Len(orders), amount \in Amounts_Paid :
       ( /\ CreatePayment(user, o, amount, "none")
         /\ last'.code = 200 )
       => ( /\ payments'[Len(payments')].status = "paid"
            /\ orders'[o].status =
                 IF orders[o].status = "pending" THEN "confirmed"
                 ELSE orders[o].status )]_vars

\* C20: of two refund requests that both read the same payment as paid, at
\* most one is answered 200; and once a refund answered 200 and an
\* update_order_status request that arrived during it are both over, the
\* payment is not refunded with the order in a status other than cancelled.
C20_RefundSingleWriter ==
  /\ \A p, q \in 1..MaxProcs :
       ( /\ p # q
         /\ refunds[p].pc = "done" /\ refunds[q].pc = "done"
         /\ refunds[p].payment_id = refunds[q].payment_id
         /\ refunds[p].seen = "paid" /\ refunds[q].seen = "paid" )
       => ~(refunds[p].code = 200 /\ refunds[q].code = 200)
  /\ \A p \in 1..MaxProcs :
       ( /\ refunds[p].pc = "done" /\ refunds[p].code = 200
         /\ changing.pc = "done" /\ changing.code = 200
         /\ changing.order_id = refunds[p].order_id
         /\ \A q \in 1..MaxProcs : refunds[q].pc \in {"idle", "done"} )
       => ~( /\ payments[refunds[p].payment_id].status = "refunded"
             /\ orders[refunds[p].order_id].status # "cancelled" )

\* the orders the last dashboard was asked about
DashboardOrders ==
  {o \in OrderIds : laundry_orders[o].laundry_vendor_id = last.vendor_id}

RECURSIVE SumUnits(_)
\* the sum of total_amount, in units of 0.0001, over a set of orders
SumUnits(os) ==
  IF os = {} THEN 0
  ELSE LET o == CHOOSE x \in os : TRUE
       IN  Units(laundry_orders[o].total_amount) + SumUnits(os \ {o})

C27_CountersPartition ==
  ( /\ last.op = "dashboard" /\ last.code = 200
    /\ \A o \in DashboardOrders : laundry_orders[o].status \in Statuses )
  => last.stats.pending_orders + last.stats.confirmed_orders
     + last.stats.in_process_orders + last.stats.ready_orders
     + last.stats.delivered_orders + last.stats.cancelled_orders
     = last.stats.total_orders

\* C22: update_order_status by an actor of an allowed role on an order id
\* that does not exist is answered 404.
C22_MissingOrder404 ==
  [][\A user \in UserIds, o \in 1..MaxOrders, s \in OrderStatuses :
       ( /\ Users[user] \in StatusRoles
         /\ o \notin 1..Len(orders)
         /\ UpdateOrderStatus(user, o, s) )
       => last'.code = 404]_vars

\* C28: no order has two payments in status paid.
C28_OnePaidPayment ==
  \A p, q \in PaymentIds :
    ( /\ payments[p].order_id = payments[q].order_id
      /\ payments[p].status = "paid"
      /\ payments[q].status = "paid" )
    => p = q

\* the order_status_history rows of an order, oldest first
HistoryOf(o) == SelectSeq(order_status_history, LAMBDA h : h.order_id = o)

\* C29: an order that left the status of its creation has a history row, and
\* the most recent history row of an order carries the order's status.
C29_HistoryTracksOrder ==
  \A o \in 1..Len(orders) :
    /\ orders[o].status # "pending" => HistoryOf(o) # <<>>
    /\ HistoryOf(o) # <<>>
       => HistoryOf(o)[Len(HistoryOf(o))].status = orders[o].status

\* the payment columns of a laundry order
PaymentColumns(order) ==
  <<order.payment_status, order.payment_method, order.payment_reference>>

\* C23: an update_laundry_order that leaves an order cancelled leaves the
\* order's payment_status, payment_method and payment_reference as they
\* were, also when the order is paid.
C23_CancelKeepsPayment ==
  [][\A o \in 1..Len(laundry_orders) :
       ( /\ last'.op = "update"
         /\ laundry_orders'[o].status = "cancelled" )
       => PaymentColumns(laundry_orders'[o]) = PaymentColumns(laundry_orders[o])]_vars

\* a paid order was cancelled by an update and is still paid
C23_Witness ==
  /\ last = Answer("update", 200)
  /\ \E o \in OrderIds :
       /\ laundry_orders[o].status = "cancelled"
       /\ laundry_orders[o].cancelled_at # NULL
       /\ laundry_orders[o].payment_status = "paid"
       /\ laundry_orders[o].payment_reference # NoReference

\* C25: the dependency yields the mock master only for a request whose host
\* is 127.0.0.1, localhost or ::1 and whose X-Testing header is "true"; a
\* request from another host gets no identity, with or without the header.
C25_BypassLocalOnly ==
  last.op = "auth"
  => /\ last.code = 200
        => /\ last.request.host \in {"127.0.0.1", "localhost", "::1"}
           /\ last.request.x_testing = "true"
           /\ last.current_user = TestUser
     /\ last.request.host \notin {"127.0.0.1", "localhost", "::1"}
        => /\ last.code = 401
           /\ last.current_user = NotAuthenticated

\* a local request with the header got the mock master
C25_Witness ==
  /\ last.op = "auth"
  /\ last.code = 200
  /\ last.request.host = "::1"
  /\ last.current_user.role = "master"

\* C26: a create_laundry_order request with the bearer token of alice, an
\* account of role user, for an existing vendor and existing items with
\* positive quantities is answered 200 and adds an order of alice with one
\* item row per line.
C26_BearerUserCreates ==
  [][\A request \in Requests, items \in GatewayCarts :
       ( /\ request.authorization = "alice"
         /\ \A k \in 1..Len(items) :
              /\ items[k].quantity > 0
              /\ items[k].laundry_item_id \in DOMAIN laundry_items
         /\ Len(laundry_orders) < MaxOrders
         /\ CreateLaundryOrderRequest(request, "lv1", items) )
       => ( /\ last' = Answer("create", 200)
            /\ Len(laundry_orders') = Len(laundry_orders) + 1
            /\ laundry_orders'[Len(laundry_orders')].user_id = "alice"
            /\ Len(laundry_order_items'[Len(laundry_orders')]) = Len(items) )]_vars

\* C30: to an actor of role user, get_orders and get_payments return only
\* rows whose user_id is the actor, and get_order and get_payment on a row of
\* someone else are answered 403 and return no row.
C30_UserSeesOwnRows ==
  ( /\ last.op \in {"get_orders", "get_order", "get_payments", "get_payment"}
    /\ Users[last.actor] = "user" )
  => /\ \A k \in 1..Len(last.rows) : last.rows[k].user_id = last.actor
     /\ ( /\ last.op = "get_order"
          /\ last.id \in 1..Len(orders)
          /\ orders[last.id].user_id # last.actor )
        => last.code = 403 /\ last.rows = <<>>
     /\ ( /\ last.op = "get_payment"
          /\ last.id \in 1..Len(payments)
          /\ payments[last.id].user_id # last.actor )
        => last.code = 403 /\ last.rows = <<>>

\* bob asked for the orders while alice had one, and got none
C30_Witness ==
  /\ last.op = "get_orders"
  /\ last.actor = "bob"
  /\ last.rows = <<>>
  /\ \E o \in 1..Len(orders) : orders[o].user_id = "alice"

====
